---- MODULE Spec2Model ----
(***************************************************************************)
(* KMSCSRBuilder (src/kmscsrbuilder/__init__.py): a PKCS#10 request        *)
(* builder whose signature is produced by a remote KMS key.  The module    *)
(* models one builder instance, the process-wide KMS client it talks to,   *)
(* and the remote key table behind that client.                            *)
(*                                                                         *)
(* Python values are modelled as follows.  Strings are TLA+ strings and    *)
(* are sliced and searched as the code slices and searches them.  Every    *)
(* asn1crypto object is a record carrying its class in the field "type";   *)
(* Python's None is the record None.  A dict is the sequence of its items  *)
(* in insertion order.  An exception is the string of its class name.      *)
(***************************************************************************)
EXTENDS Integers, Sequences, FiniteSets, TLC

VARIABLES
    _subject,              \* x509.Name
    _kms_arn,              \* the key reference last stored by the kms_arn writer
    _subject_public_key,   \* the public-key-info cached by the kms_arn writer
    _hash_algo,
    _kms_signature_algo,
    _basic_constraints,
    _subject_alt_name,
    _key_usage,
    _extended_key_usage,
    _other_extensions,
    pc,                    \* where the builder's caller is: "idle" or blocked in a KMS call
    frame,                 \* the locals of the running build_with_kms call
    calls,                 \* the KMS calls made by the running / last operation, with replies
    outcome,               \* how the last call of the caller ended: returned or raised
    previous               \* to-be-signed info of the build before the running one (history)

vars == << _subject, _kms_arn, _subject_public_key, _hash_algo, _kms_signature_algo,
           _basic_constraints, _subject_alt_name, _key_usage, _extended_key_usage,
           _other_extensions, pc, frame, calls, outcome, previous >>

builder == << _subject, _kms_arn, _subject_public_key, _hash_algo, _kms_signature_algo,
              _basic_constraints, _subject_alt_name, _key_usage, _extended_key_usage,
              _other_extensions >>

None == [type |-> "NoneType"]

(***************************************************************************)
(* Python string helpers                                                   *)
(***************************************************************************)

\* s[-3:]
Last3(s) == IF Len(s) <= 3 THEN s ELSE SubSeq(s, Len(s) - 2, Len(s))

\* sub in s
Contains(s, sub) ==
    \E i \in 1..(Len(s) - Len(sub) + 1) : SubSeq(s, i, i + Len(sub) - 1) = sub

Digits == << "0", "1", "2", "3", "4", "5", "6", "7", "8", "9" >>

IsDigit(c) == \E d \in 1..10 : Digits[d] = c

DigitValue(c) == (CHOOSE d \in 1..10 : Digits[d] = c) - 1

\* int(s) succeeds on a non-empty string of decimal digits
IsInt(s) == Len(s) > 0 /\ \A i \in 1..Len(s) : IsDigit(SubSeq(s, i, i))

RECURSIVE ParseInt(_)
ParseInt(s) ==
    IF Len(s) = 0 THEN 0
    ELSE 10 * ParseInt(SubSeq(s, 1, Len(s) - 1)) + DigitValue(SubSeq(s, Len(s), Len(s)))

(***************************************************************************)
(* The remote service: the keys the KMS client can be asked about.         *)
(***************************************************************************)

RsaAlgos == { "RSASSA_PSS_SHA_256", "RSASSA_PSS_SHA_384", "RSASSA_PSS_SHA_512",
              "RSASSA_PKCS1_V1_5_SHA_256", "RSASSA_PKCS1_V1_5_SHA_384",
              "RSASSA_PKCS1_V1_5_SHA_512" }

\* Key references a caller may pass.  "missing" names no key.
KeyIds == { "rsa2048", "p256", "p384", "sm2", "rsa_enc", "missing" }

KeyExists(k) == k # "missing"

\* kms.get_public_key(KeyId=k)['KeyUsage']
KeyUsageOf(k) == IF k = "rsa_enc" THEN "ENCRYPT_DECRYPT" ELSE "SIGN_VERIFY"

\* kms.describe_key(KeyId=k)['KeyMetadata']: an encryption key reports no
\* SigningAlgorithms entry at all.
KeyMetadata(k) ==
    CASE k = "rsa2048" -> [SigningAlgorithms |-> RsaAlgos]
      [] k = "p256"    -> [SigningAlgorithms |-> {"ECDSA_SHA_256"}]
      [] k = "p384"    -> [SigningAlgorithms |-> {"ECDSA_SHA_384"}]
      [] k = "sm2"     -> [SigningAlgorithms |-> {"SM2DSA"}]
      [] OTHER         -> [KeyUsage |-> "ENCRYPT_DECRYPT"]

HasSigningAlgorithms(k) == k \in {"rsa2048", "p256", "p384", "sm2"}

\* kms.get_public_key(KeyId=k) for a key that exists
GetPublicKey(k) == [KeyUsage |-> KeyUsageOf(k), PublicKey |-> [der_of |-> k]]

\* asymmetric.load_public_key(rawPublicKey).asn1
load_public_key(rawPublicKey) == [type |-> "PublicKeyInfo", of |-> rawPublicKey.der_of]

\* The public-key-info of key k
PublicKeyInfo(k) == load_public_key(GetPublicKey(k).PublicKey)

\* The signatures the remote signer may answer with (PSS is randomised).
Signatures == { "sig1", "sig2" }

\* certification_request_info.dump()
Dump(value) == [der |-> value]

(***************************************************************************)
(* Writers of the signing profile                                          *)
(***************************************************************************)

\* How the call of a writer ends: it returns, or raises the exception named
Done(op, arg, how) ==
    IF how = "ok" THEN [call |-> op, arg |-> arg, status |-> "returned"]
    ELSE [call |-> op, arg |-> arg, status |-> "raised", exception |-> how]

\* Every writer is called by the builder's caller, between build calls.
Call(op, arg, how) ==
    /\ pc = "idle"
    /\ pc' = pc
    /\ frame' = None
    /\ outcome' = Done(op, arg, how)
    /\ previous' = previous

\* kms_arn writer, with the reply get_public_key gives (up: the lookup succeeds)
kms_arn_status(value, up) ==
    IF ~(up /\ KeyExists(value)) THEN "UnboundLocalError"
    ELSE IF KeyUsageOf(value) # "SIGN_VERIFY" THEN "ValueError"
    ELSE "ok"

kms_arn(value, up) ==
    /\ Call("kms_arn", value, kms_arn_status(value, up))
    /\ calls' = << IF up /\ KeyExists(value)
                    THEN [api |-> "GetPublicKey", KeyId |-> value, reply |-> "ok",
                          response |-> GetPublicKey(value)]
                    ELSE [api |-> "GetPublicKey", KeyId |-> value, reply |-> "error",
                          response |-> None] >>
    /\ IF kms_arn_status(value, up) = "ok"
       THEN /\ _subject_public_key' = load_public_key(GetPublicKey(value).PublicKey)
            /\ _kms_arn' = value
       ELSE UNCHANGED << _subject_public_key, _kms_arn >>
    /\ UNCHANGED << _subject, _hash_algo, _kms_signature_algo, _basic_constraints,
                    _subject_alt_name, _key_usage, _extended_key_usage,
                    _other_extensions >>

HashAlgos == { "sha1", "sha256", "sha512" }

hash_algo(value) ==
    /\ Call("hash_algo", value, IF value \in HashAlgos THEN "ok" ELSE "ValueError")
    /\ calls' = << >>
    /\ _hash_algo' = IF value \in HashAlgos THEN value ELSE _hash_algo
    /\ UNCHANGED << _subject, _kms_arn, _subject_public_key, _kms_signature_algo,
                    _basic_constraints, _subject_alt_name, _key_usage,
                    _extended_key_usage, _other_extensions >>

valid_algos == RsaAlgos \cup { "ECDSA_SHA_256", "ECDSA_SHA_384", "ECDSA_SHA_512" }

kms_signature_algo(value) ==
    /\ Call("kms_signature_algo", value,
            IF value \in valid_algos THEN "ok" ELSE "ValueError")
    /\ calls' = << >>
    /\ _kms_signature_algo' = IF value \in valid_algos THEN value ELSE _kms_signature_algo
    /\ UNCHANGED << _subject, _kms_arn, _subject_public_key, _hash_algo,
                    _basic_constraints, _subject_alt_name, _key_usage,
                    _extended_key_usage, _other_extensions >>

(***************************************************************************)
(* Python containers                                                       *)
(***************************************************************************)

\* Code points of the characters extension names are made of, in ASCII order.
Alphabet == ".0123456789_abcdefghijklmnopqrstuvwxyz"

Ord(c) == CHOOSE i \in 1..Len(Alphabet) : SubSeq(Alphabet, i, i) = c

\* a < b on Python strings
RECURSIVE StrLess(_, _)
StrLess(a, b) ==
    IF Len(b) = 0 THEN FALSE
    ELSE IF Len(a) = 0 THEN TRUE
    ELSE IF SubSeq(a, 1, 1) = SubSeq(b, 1, 1)
         THEN StrLess(SubSeq(a, 2, Len(a)), SubSeq(b, 2, Len(b)))
         ELSE Ord(SubSeq(a, 1, 1)) < Ord(SubSeq(b, 1, 1))

Range(s) == { s[i] : i \in 1..Len(s) }

\* iter(S) of a Python set: one order, fixed by the interpreter
RECURSIVE Iter(_)
Iter(S) ==
    IF S = {} THEN << >>
    ELSE LET x == CHOOSE y \in S : TRUE IN << x >> \o Iter(S \ {x})

\* sorted(keys) for an iterable of distinct strings
RECURSIVE SortedSet(_)
SortedSet(S) ==
    IF S = {} THEN << >>
    ELSE LET least == CHOOSE x \in S : \A y \in S \ {x} : StrLess(x, y)
         IN  << least >> \o SortedSet(S \ {least})

unsorted(keys) == keys

sorted(keys) == SortedSet(Range(keys))

\* list(value) of a Python set: every iteration order the interpreter may use
Orders(S) ==
    { s \in [1..Cardinality(S) -> S] : \A i, j \in 1..Cardinality(S) : s[i] = s[j] => i = j }

\* d.keys(), name in d, d[name], d[name] = value, del d[name]
DictKeys(d) == [i \in 1..Len(d) |-> d[i].key]

DictHas(d, name) == \E i \in 1..Len(d) : d[i].key = name

DictGet(d, name) == d[CHOOSE i \in 1..Len(d) : d[i].key = name].value

DictSet(d, name, value) ==
    IF DictHas(d, name)
    THEN [i \in 1..Len(d) |-> IF d[i].key = name THEN [key |-> name, value |-> value]
                                                 ELSE d[i]]
    ELSE Append(d, [key |-> name, value |-> value])

DictDel(d, name) == SelectSeq(d, LAMBDA item : item.key # name)

(***************************************************************************)
(* Extension values                                                        *)
(***************************************************************************)

BasicConstraints(flag) == [type |-> "BasicConstraints", ca |-> flag]

GeneralName(name, value) == [name |-> name, native |-> value]

GeneralNames(names) == [type |-> "GeneralNames", names |-> names]

KeyUsage(flags) == [type |-> "KeyUsage", native |-> flags]

ExtKeyUsageSyntax(purposes) == [type |-> "ExtKeyUsageSyntax", native |-> purposes]

_special_extensions ==
    { "basic_constraints", "subject_alt_name", "key_usage", "extended_key_usage" }

\* getattr(self, '_%s' % name) for a special extension
SpecialField(name) ==
    CASE name = "basic_constraints"  -> _basic_constraints
      [] name = "subject_alt_name"   -> _subject_alt_name
      [] name = "key_usage"          -> _key_usage
      [] name = "extended_key_usage" -> _extended_key_usage

(***************************************************************************)
(* Writers of the subject and the extensions                               *)
(***************************************************************************)

\* x509.Name.build(value) for a dict; a Name is kept as it is
Name(rdns) == [type |-> "Name", rdns |-> rdns]

subject(value) ==
    LET ok == value.type \in {"Name", "dict"} IN
    /\ Call("subject", value, IF ok THEN "ok" ELSE "TypeError")
    /\ calls' = << >>
    /\ _subject' = IF ~ok THEN _subject
                   ELSE IF value.type = "dict" THEN Name(value.items) ELSE value
    /\ UNCHANGED << _kms_arn, _subject_public_key, _hash_algo, _kms_signature_algo,
                    _basic_constraints, _subject_alt_name, _key_usage,
                    _extended_key_usage, _other_extensions >>

\* Python's True and False
Bool(b) == [type |-> "bool", v |-> b]

\* ca reader
ca == IF _basic_constraints = None THEN None ELSE Bool(_basic_constraints.ca)

\* The ca writer leaving a key usage set before in place
ca_key_usage_kept(value) ==
    IF value = None \/ _key_usage # None THEN _key_usage
    ELSE IF value.v THEN KeyUsage({"key_cert_sign", "crl_sign"})
    ELSE KeyUsage({"digital_signature", "key_encipherment"})

\* ca writer: value is None, True or False
ca_key_usage(value) ==
    IF value = None THEN _key_usage
    ELSE IF value.v THEN KeyUsage({"key_cert_sign", "crl_sign"})
    ELSE KeyUsage({"digital_signature", "key_encipherment"})

ca_extended_key_usage(value) ==
    IF value = None THEN _extended_key_usage
    ELSE IF value.v THEN ExtKeyUsageSyntax(<< "ocsp_signing" >>)
    ELSE ExtKeyUsageSyntax(<< "server_auth", "client_auth" >>)

ca_basic_constraints(value) ==
    IF value = None THEN None ELSE BasicConstraints(value.v)

ca_setter(value) ==
    /\ Call("ca", value, "ok")
    /\ calls' = << >>
    /\ _basic_constraints' = ca_basic_constraints(value)
    /\ _key_usage' = ca_key_usage(value)
    /\ _extended_key_usage' = ca_extended_key_usage(value)
    /\ UNCHANGED << _subject, _kms_arn, _subject_public_key, _hash_algo,
                    _kms_signature_algo, _subject_alt_name, _other_extensions >>

_get_subject_alt(name) ==
    IF _subject_alt_name = None THEN << >>
    ELSE LET kept == SelectSeq(_subject_alt_name.names, LAMBDA g : g.name = name)
         IN  [i \in 1..Len(kept) |-> kept[i].native]

subject_alt_domains == _get_subject_alt("dns_name")

subject_alt_ips == _get_subject_alt("ip_address")

\* _set_subject_alt dropping the whole extension when no values are given
_set_subject_alt_value_cleared(name, values) ==
    LET filtered == IF _subject_alt_name # None
                    THEN SelectSeq(_subject_alt_name.names, LAMBDA g : g.name # name)
                    ELSE << >>
        added    == IF values # None
                    THEN [i \in 1..Len(values.items) |-> GeneralName(name, values.items[i])]
                    ELSE << >>
    IN  IF Len(added) = 0 THEN None ELSE GeneralNames(filtered \o added)

\* The value _set_subject_alt(name, values) leaves in _subject_alt_name
_set_subject_alt_value(name, values) ==
    LET filtered == IF _subject_alt_name # None
                    THEN SelectSeq(_subject_alt_name.names, LAMBDA g : g.name # name)
                    ELSE << >>
        added    == IF values # None
                    THEN [i \in 1..Len(values.items) |-> GeneralName(name, values.items[i])]
                    ELSE << >>
    IN  IF Len(filtered \o added) = 0 THEN None ELSE GeneralNames(filtered \o added)

_set_subject_alt(op, name, values) ==
    /\ Call(op, values, "ok")
    /\ calls' = << >>
    /\ _subject_alt_name' = _set_subject_alt_value(name, values)
    /\ UNCHANGED << _subject, _kms_arn, _subject_public_key, _hash_algo,
                    _kms_signature_algo, _basic_constraints, _key_usage,
                    _extended_key_usage, _other_extensions >>

subject_alt_domains_setter(value) == _set_subject_alt("subject_alt_domains", "dns_name", value)

subject_alt_ips_setter(value) == _set_subject_alt("subject_alt_ips", "ip_address", value)

\* key_usage reader
key_usage == IF _key_usage = None THEN {} ELSE _key_usage.native

key_usage_setter(value) ==
    LET ok == value.type = "set" \/ value = None IN
    /\ Call("key_usage", value, IF ok THEN "ok" ELSE "TypeError")
    /\ calls' = << >>
    /\ _key_usage' = IF ~ok THEN _key_usage
                     ELSE IF value = None \/ value.items = {} THEN None
                     ELSE KeyUsage(value.items)
    /\ UNCHANGED << _subject, _kms_arn, _subject_public_key, _hash_algo,
                    _kms_signature_algo, _basic_constraints, _subject_alt_name,
                    _extended_key_usage, _other_extensions >>

\* extended_key_usage reader
extended_key_usage ==
    IF _extended_key_usage = None THEN {} ELSE Range(_extended_key_usage.native)

extended_key_usage_setter(value) ==
    LET ok == value.type = "set" \/ value = None IN
    /\ Call("extended_key_usage", value, IF ok THEN "ok" ELSE "TypeError")
    /\ calls' = << >>
    /\ IF ~ok THEN _extended_key_usage' = _extended_key_usage
       ELSE IF value = None \/ value.items = {} THEN _extended_key_usage' = None
       ELSE \E order \in Orders(value.items) :
                _extended_key_usage' = ExtKeyUsageSyntax(order)
    /\ UNCHANGED << _subject, _kms_arn, _subject_public_key, _hash_algo,
                    _kms_signature_algo, _basic_constraints, _subject_alt_name,
                    _key_usage, _other_extensions >>

\* x509.Extension({'extn_id': name})['extn_id'].native: a dotted OID becomes its name
ExtnIdNative(name) ==
    CASE name = "2.5.29.19" -> "basic_constraints"
      [] name = "2.5.29.17" -> "subject_alt_name"
      [] OTHER              -> name

\* extension.spec('extn_value'): the class the value of this extension must have
ExtnSpec(name) ==
    CASE name = "basic_constraints"          -> "BasicConstraints"
      [] name = "subject_alt_name"           -> "GeneralNames"
      [] name = "key_usage"                  -> "KeyUsage"
      [] name = "extended_key_usage"         -> "ExtKeyUsageSyntax"
      [] name = "issuer_alt_name"            -> "GeneralNames"
      [] name = "name_constraints"           -> "NameConstraints"
      [] name = "certificate_policies"       -> "CertificatePolicies"
      [] name = "policy_mappings"            -> "PolicyMappings"
      [] name = "policy_constraints"         -> "PolicyConstraints"
      [] name = "inhibit_any_policy"         -> "Integer"
      [] name = "subject_information_access" -> "SubjectInfoAccessSyntax"
      [] name = "tls_feature"                -> "Features"
      [] name = "ocsp_no_check"              -> "Null"
      [] name = "subject_directory_attributes" -> "Attributes"
      [] name = "authority_key_identifier"   -> "AuthorityKeyIdentifier"
      [] OTHER                               -> "OctetString"

set_extension(extn_id, value) ==
    LET name == ExtnIdNative(extn_id)
        ok   == value = None \/ value.type = ExtnSpec(name)
        set  == ok /\ name \in _special_extensions
    IN
    /\ Call("set_extension", << extn_id, value >>, IF ok THEN "ok" ELSE "TypeError")
    /\ calls' = << >>
    /\ _basic_constraints' =
           IF set /\ name = "basic_constraints" THEN value ELSE _basic_constraints
    /\ _subject_alt_name' =
           IF set /\ name = "subject_alt_name" THEN value ELSE _subject_alt_name
    /\ _key_usage' =
           IF set /\ name = "key_usage" THEN value ELSE _key_usage
    /\ _extended_key_usage' =
           IF set /\ name = "extended_key_usage" THEN value ELSE _extended_key_usage
    /\ _other_extensions' =
           IF ~ok \/ name \in _special_extensions THEN _other_extensions
           ELSE IF value = None THEN DictDel(_other_extensions, name)
           ELSE DictSet(_other_extensions, name, value)
    /\ UNCHANGED << _subject, _kms_arn, _subject_public_key, _hash_algo,
                    _kms_signature_algo >>

(***************************************************************************)
(* Criticality                                                             *)
(***************************************************************************)

CriticalTable(name) ==
    CASE name = "subject_directory_attributes" -> FALSE
      [] name = "key_usage"                    -> TRUE
      [] name = "issuer_alt_name"              -> FALSE
      [] name = "name_constraints"             -> TRUE
      [] name = "certificate_policies"         -> FALSE
      [] name = "policy_mappings"              -> TRUE
      [] name = "policy_constraints"           -> TRUE
      [] name = "extended_key_usage"           -> FALSE
      [] name = "inhibit_any_policy"           -> TRUE
      [] name = "subject_information_access"   -> FALSE
      [] name = "tls_feature"                  -> FALSE
      [] name = "ocsp_no_check"                -> FALSE
      [] OTHER                                 -> FALSE

_determine_critical_flipped(name) ==
    IF name = "subject_alt_name" THEN Len(_subject.rdns) # 0
    ELSE IF name = "basic_constraints" THEN ca = Bool(TRUE)
    ELSE CriticalTable(name)

_determine_critical(name) ==
    IF name = "subject_alt_name" THEN Len(_subject.rdns) = 0
    ELSE IF name = "basic_constraints" THEN ca = Bool(TRUE)
    ELSE CriticalTable(name)

(***************************************************************************)
(* build_with_kms: negotiation                                             *)
(***************************************************************************)

Unbound == "<unbound>"

\* '%s_%s' % (a, b)
Format(a, b) == a \o "_" \o b

Raise(exception) == [raises |-> exception]

Negotiated(id, name) ==
    [raises |-> "", signature_algorithm_id |-> id, kms_signature_algo |-> name]

\* The kms_signature_algo writer as build_with_kms uses it: it validates the name
Assign(id, name) ==
    IF name \in valid_algos THEN Negotiated(id, name) ELSE Raise("ValueError")

signature_algo(kms_algos) ==
    IF "RSASSA_PSS_SHA_256" \in kms_algos THEN "rsa"
    ELSE IF "ECDSA_SHA_256" \in kms_algos THEN "ecdsa"
    ELSE Unbound

RSASSAPSSParams(hash) ==
    [hash_algorithm     |-> [algorithm |-> hash],
     mask_gen_algorithm |-> [algorithm |-> "mgf1", parameters |-> [algorithm |-> hash]],
     salt_length        |-> ParseInt(Last3(hash)) \div 8]

\* Lines 490-526 for the reported algorithms, the hash and the stored preference
Negotiate(kms_algos, hash, preference) ==
    LET algo == signature_algo(kms_algos) IN
    IF algo = Unbound THEN Raise("UnboundLocalError")
    ELSE IF Contains(algo, "ecdsa")
    THEN Assign([algorithm |-> Format(hash, algo)], Format("ECDSA_SHA", Last3(hash)))
    ELSE IF Contains(algo, "rsa")
    THEN IF Contains(preference, "PSS")
         THEN IF ~IsInt(Last3(hash)) THEN Raise("ValueError")
              ELSE Assign([algorithm |-> "rsassa_pss", parameters |-> RSASSAPSSParams(hash)],
                          Format("RSASSA_PSS_SHA", Last3(hash)))
         ELSE Assign([algorithm |-> Format(hash, algo)],
                     Format("RSASSA_PKCS1_V1_5_SHA", Last3(hash)))
    ELSE Raise("UnboundLocalError")

(***************************************************************************)
(* build_with_kms: the to-be-signed info                                   *)
(***************************************************************************)

_make_extension(name, value) ==
    [extn_id |-> name, critical |-> _determine_critical(name), extn_value |-> value]

SpecialExtensions ==
    LET names == SelectSeq(sorted(Iter(_special_extensions)),
                           LAMBDA name : SpecialField(name) # None)
    IN  [i \in 1..Len(names) |-> _make_extension(names[i], SpecialField(names[i]))]

OtherExtensions ==
    LET names == sorted(DictKeys(_other_extensions))
    IN  [i \in 1..Len(names) |->
            _make_extension(names[i], DictGet(_other_extensions, names[i]))]

Extensions == SpecialExtensions \o OtherExtensions

Attributes ==
    IF Extensions # << >>
    THEN << [type |-> "extension_request", values |-> << Extensions >>] >>
    ELSE << >>

CertificationRequestInfo ==
    [version         |-> "v1",
     subject         |-> _subject,
     subject_pk_info |-> _subject_public_key,
     attributes      |-> Attributes]

(***************************************************************************)
(* build_with_kms: the call and its two round trips                        *)
(***************************************************************************)

Running == [call |-> "build_with_kms", status |-> "running"]

Raised(exception) ==
    [call |-> "build_with_kms", status |-> "raised", exception |-> exception]

Returned(request) ==
    [call |-> "build_with_kms", status |-> "returned", request |-> request]

Reply(log, how, response) ==
    [log EXCEPT ![Len(log)].reply = how, ![Len(log)].response = response]

\* The builder's configuration a request is built from (history only)
Configuration ==
    [subject         |-> _subject,
     subject_pk_info |-> _subject_public_key,
     extensions      |->
         { << name, SpecialField(name) >> :
             name \in { n \in _special_extensions : SpecialField(n) # None } }
         \cup { << item.key, item.value >> : item \in Range(_other_extensions) }]

\* build_with_kms(kms_arn) up to the describe_key request
build_with_kms(kms_arn_) ==
    /\ pc = "idle"
    /\ pc' = "describe_key"
    /\ frame' = [kms_arn |-> kms_arn_]
    /\ calls' = << [api |-> "DescribeKey", KeyId |-> kms_arn_, reply |-> "pending",
                    response |-> None] >>
    /\ outcome' = Running
    /\ UNCHANGED previous
    /\ UNCHANGED builder

\* describe_key raises, the exception is caught and logged as the kms_arn writer
\* does, and the build dies on the unbound reply
DescribeKeyFails_swallowed ==
    /\ pc = "describe_key"
    /\ pc' = "idle"
    /\ frame' = None
    /\ calls' = Reply(calls, "error", None)
    /\ outcome' = Raised("UnboundLocalError")
    /\ UNCHANGED previous
    /\ UNCHANGED builder

\* describe_key raises: the exception leaves build_with_kms
DescribeKeyFails ==
    /\ pc = "describe_key"
    /\ pc' = "idle"
    /\ frame' = None
    /\ calls' = Reply(calls, "error", None)
    /\ outcome' = Raised("ClientError")
    /\ UNCHANGED previous
    /\ UNCHANGED builder

\* What lines 490-526 do with the reply of describe_key for key k
Negotiation(k) ==
    IF ~HasSigningAlgorithms(k) THEN Raise("KeyError")
    ELSE Negotiate(KeyMetadata(k).SigningAlgorithms, _hash_algo, _kms_signature_algo)

\* describe_key answers; the build runs on to the sign request or to an exception
DescribeKeyReturns ==
    /\ pc = "describe_key"
    /\ KeyExists(frame.kms_arn)
    /\ LET result == Negotiation(frame.kms_arn) IN
       IF result.raises # ""
       THEN /\ pc' = "idle"
            /\ frame' = None
            /\ calls' = Reply(calls, "ok", KeyMetadata(frame.kms_arn))
            /\ outcome' = Raised(result.raises)
            /\ UNCHANGED builder
       ELSE /\ pc' = "sign"
            /\ _kms_signature_algo' = result.kms_signature_algo
            /\ frame' = [kms_arn |-> frame.kms_arn,
                         signature_algorithm_id |-> result.signature_algorithm_id,
                         certification_request_info |-> CertificationRequestInfo]
            /\ calls' = Append(Reply(calls, "ok", KeyMetadata(frame.kms_arn)),
                               [api |-> "Sign", KeyId |-> frame.kms_arn,
                                SigningAlgorithm |-> result.kms_signature_algo,
                                Message |-> Dump(CertificationRequestInfo),
                                reply |-> "pending", response |-> None])
            /\ outcome' = Running
            /\ UNCHANGED << _subject, _kms_arn, _subject_public_key, _hash_algo,
                            _basic_constraints, _subject_alt_name, _key_usage,
                            _extended_key_usage, _other_extensions >>
    /\ UNCHANGED previous

\* The build that ends here becomes the previous one (kept only when tracked)
Remember(track) ==
    previous' = IF track
                THEN [configuration |-> Configuration,
                      certification_request_info |-> frame.certification_request_info]
                ELSE previous

\* sign raises: the exception leaves build_with_kms
SignFails(track) ==
    /\ pc = "sign"
    /\ pc' = "idle"
    /\ frame' = None
    /\ calls' = Reply(calls, "error", None)
    /\ outcome' = Raised("ClientError")
    /\ Remember(track)
    /\ UNCHANGED builder

\* sign answers with a signature; build_with_kms returns the request
SignReturns(signature, track) ==
    /\ pc = "sign"
    /\ pc' = "idle"
    /\ frame' = None
    /\ calls' = Reply(calls, "ok", [Signature |-> signature])
    /\ outcome' = Returned([certification_request_info |-> frame.certification_request_info,
                          signature_algorithm |-> frame.signature_algorithm_id,
                          signature |-> signature])
    /\ Remember(track)
    /\ UNCHANGED builder

(***************************************************************************)
(* Construction                                                            *)
(***************************************************************************)

SigningKeys == { k \in KeyIds : KeyExists(k) /\ KeyUsageOf(k) = "SIGN_VERIFY" }

\* KMSCSRBuilder(subject, kms_arn) that returned a builder
Constructed(subject_, kms_arn_) ==
    /\ _subject = subject_
    /\ _kms_arn = kms_arn_
    /\ _subject_public_key = PublicKeyInfo(kms_arn_)
    /\ _basic_constraints = BasicConstraints(FALSE)
    /\ _key_usage = KeyUsage({"digital_signature", "key_encipherment"})
    /\ _extended_key_usage = ExtKeyUsageSyntax(<< "server_auth", "client_auth" >>)
    /\ _subject_alt_name = None
    /\ _hash_algo = "sha256"
    /\ _other_extensions = << >>
    /\ _kms_signature_algo = "RSASSA_PSS_SHA_256"
    /\ pc = "idle"
    /\ frame = None
    /\ calls = << >>
    /\ outcome = Done("ca", Bool(FALSE), "ok")
    /\ previous = None

(***************************************************************************)
(* The signing profile: every key, hash and preference                     *)
(***************************************************************************)

InitSigning ==
    \E k \in SigningKeys :
        Constructed(Name(<< [type |-> "common_name", value |-> "example.com"] >>), k)

NextSigning ==
    \/ \E k \in KeyIds, up \in BOOLEAN : kms_arn(k, up)
    \/ \E h \in HashAlgos \cup {"md5"} : hash_algo(h)
    \/ \E a \in valid_algos \cup {"SM2DSA"} : kms_signature_algo(a)
    \/ \E k \in KeyIds : build_with_kms(k)
    \/ DescribeKeyReturns
    \/ DescribeKeyFails
    \/ \E signature \in Signatures : SignReturns(signature, FALSE)
    \/ SignFails(FALSE)

SpecSigning == InitSigning /\ [][NextSigning]_vars

(***************************************************************************)
(* Arguments of the writers of the subject and of the extension set        *)
(***************************************************************************)

List(items) == [type |-> "list", items |-> items]

Set(items) == [type |-> "set", items |-> items]

Dict(items) == [type |-> "dict", items |-> items]

CommonName == [type |-> "common_name", value |-> "example.com"]

Subjects == { Dict(<< >>), Dict(<< CommonName >>), Name(<< CommonName >>), List(<< >>) }

Flags == { None, Bool(TRUE), Bool(FALSE) }

Domains == { None, List(<< >>), List(<< "example.com" >>) }

Addresses == { List(<< >>), List(<< "10.0.0.1" >>) }

KeyUsages == { None, Set({}), Set({"digital_signature"}), List(<< "crl_sign" >>) }

ExtendedKeyUsages ==
    { Set({}), Set({"server_auth", "client_auth"}), List(<< "ocsp_signing" >>) }

\* A value of the class the extension takes
ValueOf(name) == [type |-> ExtnSpec(name), native |-> "value"]

\* set_extension(name, value) and set_extension(name, None) for each name
Settings(names) ==
    { << name, ValueOf(name) >> : name \in names } \cup { << name, None >> : name \in names }

SpecialSettings ==
    { << "basic_constraints", BasicConstraints(TRUE) >>,
      << "2.5.29.19", BasicConstraints(FALSE) >>,
      << "basic_constraints", None >>,
      << "subject_alt_name", GeneralNames(<< >>) >>,
      << "subject_alt_name", GeneralNames(<< GeneralName("dns_name", "example.com") >>) >>,
      << "subject_alt_name", KeyUsage({"crl_sign"}) >>,
      << "key_usage", KeyUsage({"crl_sign"}) >>,
      << "extended_key_usage", None >> }

(***************************************************************************)
(* Criticality: every extension name, with the subject and the ca flag     *)
(***************************************************************************)

\* The extensions without a field of their own
OtherNames ==
    { "name_constraints", "policy_mappings", "policy_constraints", "inhibit_any_policy",
      "issuer_alt_name", "certificate_policies", "subject_information_access",
      "tls_feature", "ocsp_no_check", "authority_key_identifier" }

\* The number of extensions without a field of their own a request asks for
MaxOther == 1

\* set_extension does not grow the dict beyond MaxOther items
WithinBound(setting) ==
    \/ setting[2] = None
    \/ ExtnIdNative(setting[1]) \in _special_extensions
    \/ DictHas(_other_extensions, ExtnIdNative(setting[1]))
    \/ Len(_other_extensions) < MaxOther

\* Basic constraints and a subject alternative name set as any other extension
CriticalSettings ==
    { << "basic_constraints", BasicConstraints(TRUE) >>,
      << "2.5.29.19", BasicConstraints(FALSE) >>,
      << "subject_alt_name", GeneralNames(<< GeneralName("dns_name", "example.com") >>) >>,
      << "subject_alt_name", None >> }

InitCriticality ==
    \E s \in { Name(<< >>), Name(<< CommonName >>) } : Constructed(s, "rsa2048")

NextCriticality ==
    \/ \E value \in { Dict(<< >>), Dict(<< CommonName >>) } : subject(value)
    \/ \E value \in Flags : ca_setter(value)
    \/ \E setting \in CriticalSettings \cup Settings(OtherNames) :
           WithinBound(setting) /\ set_extension(setting[1], setting[2])
    \/ build_with_kms(_kms_arn)
    \/ DescribeKeyReturns
    \/ DescribeKeyFails
    \/ \E signature \in Signatures : SignReturns(signature, FALSE)
    \/ SignFails(FALSE)

SpecCriticality == InitCriticality /\ [][NextCriticality]_vars

(***************************************************************************)
(* Writers: every writer of the four extensions with a field of their own  *)
(***************************************************************************)

InitWriters ==
    \E s \in { Name(<< >>), Name(<< CommonName >>) } : Constructed(s, "rsa2048")

NextWriters ==
    \/ \E value \in Subjects : subject(value)
    \/ \E value \in Flags : ca_setter(value)
    \/ \E value \in Domains : subject_alt_domains_setter(value)
    \/ \E value \in Addresses : subject_alt_ips_setter(value)
    \/ \E value \in KeyUsages : key_usage_setter(value)
    \/ \E value \in ExtendedKeyUsages : extended_key_usage_setter(value)
    \/ \E setting \in SpecialSettings \cup Settings({"ocsp_no_check"}) :
           set_extension(setting[1], setting[2])
    \/ build_with_kms(_kms_arn)
    \/ DescribeKeyReturns
    \/ DescribeKeyFails
    \/ \E signature \in Signatures : SignReturns(signature, FALSE)
    \/ SignFails(FALSE)

SpecWriters == InitWriters /\ [][NextWriters]_vars

(***************************************************************************)
(* Determinism: builds that follow one another, the earlier one remembered *)
(***************************************************************************)

InitDeterminism ==
    \E s \in { Name(<< >>), Name(<< CommonName >>) } : Constructed(s, "rsa2048")

NextDeterminism ==
    \/ \E value \in { Dict(<< >>), Dict(<< CommonName >>) } : subject(value)
    \/ \E value \in Flags : ca_setter(value)
    \/ \E value \in Domains : subject_alt_domains_setter(value)
    \/ \E setting \in Settings({"name_constraints", "certificate_policies"}) :
           set_extension(setting[1], setting[2])
    \/ build_with_kms(_kms_arn)
    \/ DescribeKeyReturns
    \/ DescribeKeyFails
    \/ \E signature \in Signatures : SignReturns(signature, TRUE)
    \/ SignFails(TRUE)

SpecDeterminism == InitDeterminism /\ [][NextDeterminism]_vars

(***************************************************************************)
(* Claims about the signing profile                                        *)
(***************************************************************************)

\* The exception classes the builder raises for a bad configuration
ConfigurationError == { "ValueError", "TypeError" }

\* A step in which the caller assigned a key reference
AssignedKey ==
    pc = "idle" /\ pc' = "idle" /\ Len(calls') = 1 /\ calls'[1].api = "GetPublicKey"

\* A step in which describe_key answered and the build ran on
DescribedStep == pc = "describe_key" /\ pc' # "describe_key" /\ calls'[1].reply = "ok"

\* C1 as stated: an assignment of a key reference whose lookup fails, or whose
\* key is not for sign/verify, ends in a configuration error raised by the
\* builder and leaves the stored reference and the cached public key as they were.
C1_AssignmentFailsFast ==
    [][ (/\ AssignedKey
         /\ \/ calls'[1].reply = "error"
            \/ calls'[1].response.KeyUsage # "SIGN_VERIFY")
        => /\ outcome'.status = "raised"
           /\ outcome'.exception \in ConfigurationError
           /\ UNCHANGED << _kms_arn, _subject_public_key >> ]_vars

\* What C2 says the negotiation yields, for the code's family of the key
C2_Width == Last3(_hash_algo)

C2_Identifier(family) ==
    IF family = "ecdsa" THEN [algorithm |-> _hash_algo \o "_ecdsa"]
    ELSE IF Contains(_kms_signature_algo, "PSS")
    THEN [algorithm  |-> "rsassa_pss",
          parameters |-> [hash_algorithm     |-> [algorithm |-> _hash_algo],
                          mask_gen_algorithm |-> [algorithm  |-> "mgf1",
                                                  parameters |-> [algorithm |-> _hash_algo]],
                          salt_length        |-> ParseInt(C2_Width) \div 8]]
    ELSE [algorithm |-> _hash_algo \o "_rsa"]

C2_RemoteName(family) ==
    IF family = "ecdsa" THEN "ECDSA_SHA_" \o C2_Width
    ELSE IF Contains(_kms_signature_algo, "PSS") THEN "RSASSA_PSS_SHA_" \o C2_Width
    ELSE "RSASSA_PKCS1_V1_5_SHA_" \o C2_Width

\* C2 as stated: for every accepted hash and preference, against an RSA key
\* (rsa2048) or an EC key (p256), the negotiation completes and yields the
\* identifier and the remote name of the key's family.
C2_NegotiationYields ==
    [][ (DescribedStep /\ frame.kms_arn \in {"rsa2048", "p256"})
        => /\ pc' = "sign"
           /\ LET family == IF frame.kms_arn = "p256" THEN "ecdsa" ELSE "rsa" IN
              /\ frame'.signature_algorithm_id = C2_Identifier(family)
              /\ calls'[2].SigningAlgorithm = C2_RemoteName(family) ]_vars

\* The family C3 gives a key that reports these algorithm names
C3_Family(names) ==
    IF \E a \in names : Contains(a, "RSASSA_PSS") THEN "rsa"
    ELSE IF \E a \in names : Contains(a, "ECDSA") THEN "ecdsa"
    ELSE "unsupported"

\* C3 as stated: a key reporting an RSA-PSS name of any width is signed for as
\* RSA, else one reporting an ECDSA name of any width as EC, and any other key
\* ends the build in a configuration error with no call to the signer.  (The
\* hash is one the negotiation can name, so that the family shows in the result.)
C3_Classification ==
    [][ (/\ DescribedStep
         /\ HasSigningAlgorithms(frame.kms_arn)
         /\ _hash_algo \in {"sha256", "sha512"})
        => LET family == C3_Family(calls'[1].response.SigningAlgorithms) IN
           IF family = "unsupported"
           THEN /\ pc' = "idle"
                /\ outcome'.status = "raised"
                /\ outcome'.exception \in ConfigurationError
                /\ Len(calls') = 1
           ELSE /\ pc' = "sign"
                /\ frame'.signature_algorithm_id.algorithm \in
                       IF family = "ecdsa" THEN { _hash_algo \o "_ecdsa" }
                       ELSE { "rsassa_pss", _hash_algo \o "_rsa" } ]_vars

\* C4 as stated: the algorithm name given to Sign is one of the names
\* DescribeKey reported for the key in the same build.
C4_SignsWithReportedAlgorithm ==
    \A i \in 1..Len(calls) :
        calls[i].api = "Sign" =>
            calls[i].SigningAlgorithm \in calls[1].response.SigningAlgorithms

\* The log of KMS calls belongs to a build (running or ended)
InBuild == outcome.call = "build_with_kms"

\* C5: a build asks DescribeKey first and alone, asks Sign at most once, only
\* after DescribeKey answered and only with the to-be-signed info it has just
\* serialised, never asks GetPublicKey, stops at the first failed call and
\* surfaces it, and returns a request only with the signature Sign returned.
C5_SequentialAllOrNothing ==
    InBuild =>
        /\ Len(calls) \in {1, 2}
        /\ calls[1].api = "DescribeKey"
        /\ \A i \in 1..Len(calls) : calls[i].api # "GetPublicKey"
        /\ pc = "describe_key" <=> (Len(calls) = 1 /\ calls[1].reply = "pending")
        /\ Len(calls) = 2 =>
              /\ calls[1].reply = "ok"
              /\ calls[2].api = "Sign"
        /\ pc = "sign" <=> (Len(calls) = 2 /\ calls[2].reply = "pending")
        /\ pc = "sign" =>
              calls[2].Message = Dump(frame.certification_request_info)
        /\ \A i \in 1..Len(calls) :
              calls[i].reply = "error" =>
                  /\ i = Len(calls)
                  /\ pc = "idle"
                  /\ outcome = Raised("ClientError")
        /\ outcome.status = "running" <=> pc # "idle"
        /\ outcome.status = "returned" =>
              /\ Len(calls) = 2
              /\ calls[2].reply = "ok"
              /\ outcome.request.signature = calls[2].response.Signature
              /\ Dump(outcome.request.certification_request_info) = calls[2].Message
        /\ outcome.status = "raised" =>
              calls[Len(calls)].reply # "pending"

\* A build returned a request after both round trips
C5_Witness ==
    /\ outcome.call = "build_with_kms"
    /\ outcome.status = "returned"
    /\ Len(calls) = 2
    /\ calls[2].reply = "ok"

\* C10 as stated: the key asked to sign a returned request is the key whose
\* public-key-info the request carries, the one last assigned to the builder.
C10_SignedByNamedKey ==
    (outcome.call = "build_with_kms" /\ outcome.status = "returned") =>
        /\ calls[2].KeyId = _kms_arn
        /\ outcome.request.certification_request_info.subject_pk_info
               = PublicKeyInfo(calls[2].KeyId)

\* A step of a running build_with_kms call
BuildStep == pc # "idle" \/ pc' # "idle"

\* C11 as stated: no step of a build changes the signing-algorithm preference,
\* which keeps reading as the value the caller last assigned (or the default).
C11_PreferenceKept ==
    [][ BuildStep => UNCHANGED _kms_signature_algo ]_vars

(***************************************************************************)
(* Claims about the extensions                                             *)
(***************************************************************************)

\* The extensions a certification request info asks for
RequestedExtensions(info) ==
    IF info.attributes = << >> THEN << >> ELSE info.attributes[1].values[1]

BuildReturned == outcome.call = "build_with_kms" /\ outcome.status = "returned"

\* The request build_with_kms returned
Request == outcome.request.certification_request_info

\* A step in which the caller ran writer op with argument arg
WriterStep(op, arg) ==
    pc = "idle" /\ pc' = "idle" /\ outcome'.call = op /\ outcome'.arg = arg

\* The criticality policy as C6 states it
C6_Policy(name) ==
    CASE name = "basic_constraints" -> ca = Bool(TRUE)
      [] name = "subject_alt_name"  -> Len(_subject.rdns) = 0
      [] name \in { "key_usage", "name_constraints", "policy_mappings",
                    "policy_constraints", "inhibit_any_policy" } -> TRUE
      [] name \in { "extended_key_usage", "issuer_alt_name", "certificate_policies",
                    "subject_information_access", "tls_feature", "ocsp_no_check" } -> FALSE
      [] OTHER -> FALSE

\* C6: every extension of a returned request carries the critical flag the
\* policy gives its name on the builder's state: basic_constraints iff ca is
\* True, subject_alt_name iff the subject is empty, the five critical names
\* critical, every other name not.
C6_CriticalityPolicy ==
    BuildReturned =>
        \A i \in 1..Len(RequestedExtensions(Request)) :
            LET extension == RequestedExtensions(Request)[i] IN
            extension.critical = C6_Policy(extension.extn_id)

\* A request with critical basic constraints, a critical subject alternative
\* name and an extension without a field of its own
C6_Witness ==
    /\ BuildReturned
    /\ \E i, j, k \in 1..Len(RequestedExtensions(Request)) :
          LET extensions == RequestedExtensions(Request) IN
          /\ extensions[i].extn_id = "basic_constraints" /\ extensions[i].critical
          /\ extensions[j].extn_id = "subject_alt_name" /\ extensions[j].critical
          /\ extensions[k].extn_id \in OtherNames

\* C7: whatever was set before, ca = True leaves ca True, key usage
\* {key_cert_sign, crl_sign} and extended key usage {ocsp_signing}; ca = False
\* leaves ca False, {digital_signature, key_encipherment} and {server_auth,
\* client_auth}; ca = None leaves ca None and both usages as they were; and a
\* request built while ca is None asks for no basic constraints.
C7_SetCa ==
    /\ [][ /\ WriterStep("ca", Bool(TRUE)) =>
                /\ ca' = Bool(TRUE)
                /\ key_usage' = {"key_cert_sign", "crl_sign"}
                /\ extended_key_usage' = {"ocsp_signing"}
           /\ WriterStep("ca", Bool(FALSE)) =>
                /\ ca' = Bool(FALSE)
                /\ key_usage' = {"digital_signature", "key_encipherment"}
                /\ extended_key_usage' = {"server_auth", "client_auth"}
           /\ WriterStep("ca", None) =>
                /\ ca' = None
                /\ UNCHANGED << _key_usage, _extended_key_usage >> ]_vars
    /\ [](BuildReturned /\ ca = None =>
             \A i \in 1..Len(RequestedExtensions(Request)) :
                 RequestedExtensions(Request)[i].extn_id # "basic_constraints")

\* ca = True was assigned over a key usage and a subject alternative name set by hand
C7_Witness ==
    /\ outcome.call = "ca"
    /\ outcome.arg = Bool(TRUE)
    /\ key_usage = {"key_cert_sign", "crl_sign"}
    /\ extended_key_usage = {"ocsp_signing"}
    /\ subject_alt_ips # << >>

\* The to-be-signed info of the running build
Info == frame.certification_request_info

IsSpecial(extension) == extension.extn_id \in _special_extensions

\* Special extensions first, and each of the two runs in ascending order of name
C8_Canonical(extensions) ==
    \A i, j \in 1..Len(extensions) :
        i < j =>
            /\ IsSpecial(extensions[j]) => IsSpecial(extensions[i])
            /\ IsSpecial(extensions[i]) = IsSpecial(extensions[j]) =>
                   StrLess(extensions[i].extn_id, extensions[j].extn_id)

\* C8: the to-be-signed info a build serialises asks for exactly the configured
\* extensions, the special ones in order of name and then the others in order
\* of name, whatever the order of the writer calls; and when the configuration
\* (subject, cached public key, extension set) is that of the build before,
\* whatever signature or failure ended it, the to-be-signed info is the same.
C8_DeterministicInfo ==
    pc = "sign" =>
        /\ C8_Canonical(RequestedExtensions(Info))
        /\ { << e.extn_id, e.extn_value >> : e \in Range(RequestedExtensions(Info)) }
               = Configuration.extensions
        /\ Info.subject = Configuration.subject
        /\ Info.subject_pk_info = Configuration.subject_pk_info
        /\ (previous # None /\ previous.configuration = Configuration) =>
               /\ previous.certification_request_info = Info
               /\ Dump(previous.certification_request_info) = calls[2].Message

\* A second build on the configuration of the first, whose two other extensions
\* were set in the order opposite to that of their names
C8_Witness ==
    /\ pc = "sign"
    /\ previous # None
    /\ previous.configuration = Configuration
    /\ Len(_other_extensions) = 2
    /\ StrLess(_other_extensions[2].key, _other_extensions[1].key)
    /\ _subject_alt_name # None

\* A subject alternative name is among the extensions a build would ask for
SanRequested == \E i \in 1..Len(Extensions) : Extensions[i].extn_id = "subject_alt_name"

\* The general names of another kind than dns_name
OtherKinds ==
    IF _subject_alt_name = None THEN << >>
    ELSE SelectSeq(_subject_alt_name.names, LAMBDA g : g.name # "dns_name")

\* subject_alt_domains = [] is the call that has just returned
AfterEmptyDomains ==
    outcome.call = "subject_alt_domains" /\ outcome.arg = List(<< >>)

\* C9 as stated: after subject_alt_domains = [] the domains read back empty and
\* a build asks for no subject alternative name.
C9_EmptyDomainsNoSan ==
    AfterEmptyDomains =>
        /\ subject_alt_domains = << >>
        /\ ~SanRequested

\* C9 amended: after subject_alt_domains = [] the domains read back empty; a
\* subject alternative name stays set exactly when general names of another
\* kind were set, and then holds those names alone; a build asks for it
\* exactly when it is set, and the request a build returns carries what the
\* build asks for.
C9_EmptyDomains ==
    /\ [][ WriterStep("subject_alt_domains", List(<< >>)) =>
               /\ _subject_alt_name' # None <=> OtherKinds # << >>
               /\ _subject_alt_name' # None => _subject_alt_name'.names = OtherKinds ]_vars
    /\ [](AfterEmptyDomains =>
             /\ subject_alt_domains = << >>
             /\ SanRequested <=> _subject_alt_name # None)
    /\ [](BuildReturned => RequestedExtensions(Request) = Extensions)

\* subject_alt_domains = [] was assigned and the addresses are still asked for
C9_Witness ==
    /\ AfterEmptyDomains
    /\ subject_alt_domains = << >>
    /\ subject_alt_ips # << >>
    /\ SanRequested

====
